---------------------------- MODULE Spec2Model ----------------------------
(***************************************************************************)
(* Model of the MySQL wire-protocol core of metal-db-proxy                 *)
(* (package proxy): packet codec, scalar encoders, response builders,      *)
(* credential verifier, handshake and the per-connection session loop.     *)
(*                                                                         *)
(* Bytes are integers 0..255; a []byte or string is a sequence of bytes    *)
(* (Go index i is TLA+ index i+1).  A uint64 is the sequence of its 8      *)
(* bytes, least significant first, so that values up to 2^64-1 and the     *)
(* wrap of int(uint64) are represented exactly.                            *)
(***************************************************************************)
EXTENDS Integers, Sequences, FiniteSets, TLC

VARIABLES pc, inbuf, inEOF, out, scramble, sequence, sent, hs, last, ncmd,
          cfn, carg, cres, conns

vars == <<pc, inbuf, inEOF, out, scramble, sequence, sent, hs, last, ncmd,
          cfn, carg, cres, conns>>

connVars == <<pc, inbuf, inEOF, out, scramble, sequence, sent, hs, last, ncmd>>
codecVars == <<cfn, carg, cres>>

----------------------------------------------------------------------------
(* Bounds of the model *)

\* number of frames (or raw chunks) the client sends on one connection
MaxSends == 3
\* longest payload enumerated byte by byte in the codec round trip
MaxPayloadLen == 2
\* number of packets a client sends on each of several connections
MaxAttempts == 2

----------------------------------------------------------------------------
(* Program constants *)

COM_QUIT == 1
COM_INIT_DB == 2
COM_QUERY == 3

MaxPacketPayload == 16777215

HandshakeMinLen == 32

UsernamePos == 36

ErrAccessDenied == 1045

ErrSyntax == 1064

----------------------------------------------------------------------------
(* Bytes, strings and fixed-width integers *)

Zeros(n) == [i \in 1..n |-> 0]

\* Go slice expression data[lo:] and data[lo:hi]
SliceFrom(data, lo) == SubSeq(data, lo + 1, Len(data))
Slice(data, lo, hi) == SubSeq(data, lo + 1, hi)

\* a response sequence number kept in a wider integer than uint8
NextSequence_M(seq) == seq + 1

\* pkt.Sequence+1 on a uint8
NextSequence(seq) == (seq + 1) % 256

RECURSIVE XorByte(_, _)
XorByte(a, b) ==
    IF a = 0 /\ b = 0 THEN 0
    ELSE (((a % 2) + (b % 2)) % 2) + 2 * XorByte(a \div 2, b \div 2)

\* uint64 <-> small naturals
U64(n) == <<n % 256, (n \div 256) % 256, (n \div 65536) % 256,
            (n \div 16777216) % 256, 0, 0, 0, 0>>

\* n < m for a uint64 n and a bound m <= 2^24
U64Lt(n, m) ==
    /\ \A k \in 4..8 : n[k] = 0
    /\ n[1] + 256 * n[2] + 65536 * n[3] < m

\* value of a uint64 known to be below 2^24
U64Low(n) == n[1] + 256 * n[2] + 65536 * n[3]

\* 64-bit wrapping addition of a small non-negative int to a 64-bit word
RECURSIVE AddCarry(_, _, _)
AddCarry(w, k, carry) ==
    IF k > 8 THEN <<>>
    ELSE <<(w[k] + carry) % 256>> \o AddCarry(w, k + 1, (w[k] + carry) \div 256)

Add64(w, small) == AddCarry(w, 1, small)

\* sign of a 64-bit word read as int (int is 64 bits wide)
Neg64(w) == w[8] >= 128

\* strconv of a non-negative integer in decimal (fmt %d)
RECURSIVE Itoa(_)
Itoa(n) == IF n < 10 THEN <<48 + n>> ELSE Itoa(n \div 10) \o <<48 + (n % 10)>>

StrPassword == <<112, 97, 115, 115, 119, 111, 114, 100>>
StrAccessDenied == <<65, 99, 99, 101, 115, 115, 32, 100, 101, 110, 105, 101, 100,
                     32, 102, 111, 114, 32, 117, 115, 101, 114, 32, 39>>
StrQuote == <<39>>
Str28000 == <<50, 56, 48, 48, 48>>
Str42000 == <<52, 50, 48, 48, 48>>
StrEOF == <<69, 79, 70>>
StrUnsupported == <<117, 110, 115, 117, 112, 112, 111, 114, 116, 101, 100, 32,
                    99, 111, 109, 109, 97, 110, 100, 58, 32>>
StrServerVersion == <<109, 101, 116, 97, 108, 45, 100, 98, 45, 112, 114, 111,
                      120, 121, 45, 49, 46, 48>>
StrPluginName == <<109, 121, 115, 113, 108, 95, 110, 97, 116, 105, 118, 101, 95,
                   112, 97, 115, 115, 119, 111, 114, 100>>

----------------------------------------------------------------------------
(* Scalar encoders *)

\* index (0-based) of the first zero byte, or -1
IndexByte0(data) ==
    IF \E i \in 1..Len(data) : data[i] = 0
    THEN (CHOOSE i \in 1..Len(data) :
             data[i] = 0 /\ \A j \in 1..(i - 1) : data[j] /= 0) - 1
    ELSE -1

ReadNullTerminatedString(data) ==
    LET i == IndexByte0(data) IN
    IF i = -1 THEN [str |-> <<>>, n |-> 0, err |-> "ErrInvalidPacket"]
    ELSE [str |-> Slice(data, 0, i), n |-> i + 1, err |-> "nil"]

\* a decoder that drops the high byte of the 0xFD form
ReadLengthEncodedInt_M(data) ==
    LET bad == [val |-> U64(0), n |-> 0, err |-> "ErrInvalidPacket"] IN
    IF Len(data) = 0 THEN bad
    ELSE LET first == data[1] IN
         IF first < 251 THEN [val |-> U64(first), n |-> 1, err |-> "nil"]
         ELSE IF first = 251 THEN [val |-> U64(0), n |-> 1, err |-> "nil"]
         ELSE IF first = 252 THEN
             IF Len(data) < 3 THEN bad
             ELSE [val |-> <<data[2], data[3], 0, 0, 0, 0, 0, 0>>, n |-> 3, err |-> "nil"]
         ELSE IF first = 253 THEN
             IF Len(data) < 4 THEN bad
             ELSE [val |-> <<data[2], data[3], 0, 0, 0, 0, 0, 0>>, n |-> 4,
                   err |-> "nil"]
         ELSE IF first = 254 THEN
             IF Len(data) < 9 THEN bad
             ELSE [val |-> Slice(data, 1, 9), n |-> 9, err |-> "nil"]
         ELSE bad

ReadLengthEncodedInt(data) ==
    LET bad == [val |-> U64(0), n |-> 0, err |-> "ErrInvalidPacket"] IN
    IF Len(data) = 0 THEN bad
    ELSE LET first == data[1] IN
         IF first < 251 THEN [val |-> U64(first), n |-> 1, err |-> "nil"]
         ELSE IF first = 251 THEN [val |-> U64(0), n |-> 1, err |-> "nil"]
         ELSE IF first = 252 THEN
             IF Len(data) < 3 THEN bad
             ELSE [val |-> <<data[2], data[3], 0, 0, 0, 0, 0, 0>>, n |-> 3, err |-> "nil"]
         ELSE IF first = 253 THEN
             IF Len(data) < 4 THEN bad
             ELSE [val |-> <<data[2], data[3], data[4], 0, 0, 0, 0, 0>>, n |-> 4,
                   err |-> "nil"]
         ELSE IF first = 254 THEN
             IF Len(data) < 9 THEN bad
             ELSE [val |-> Slice(data, 1, 9), n |-> 9, err |-> "nil"]
         ELSE bad

\* lengthEncode taking 251 (0xFB) into the 1-byte form
lengthEncode_M(n) ==
    IF U64Lt(n, 252) THEN <<n[1]>>
    ELSE IF U64Lt(n, 65536) THEN <<252, n[1], n[2]>>
    ELSE IF U64Lt(n, 16777216) THEN <<253, n[1], n[2], n[3]>>
    ELSE <<254>> \o n

lengthEncode(n) ==
    IF U64Lt(n, 251) THEN <<n[1]>>
    ELSE IF U64Lt(n, 65536) THEN <<252, n[1], n[2]>>
    ELSE IF U64Lt(n, 16777216) THEN <<253, n[1], n[2], n[3]>>
    ELSE <<254>> \o n

----------------------------------------------------------------------------
(* Response builders *)

\* an OK packet with the status bytes in big-endian order
NewOKPacket_M(affectedRows, lastInsertID, status) ==
    <<0>> \o lengthEncode(affectedRows) \o lengthEncode(lastInsertID)
          \o <<(status \div 256) % 256, status % 256>> \o <<0, 0>>

NewOKPacket(affectedRows, lastInsertID, status) ==
    <<0>> \o lengthEncode(affectedRows) \o lengthEncode(lastInsertID)
          \o <<status % 256, (status \div 256) % 256>> \o <<0, 0>>

\* an ERR packet with the code bytes in big-endian order
NewErrPacket_M(code, sqlState, message) ==
    <<255>> \o <<(code \div 256) % 256, code % 256>> \o <<35>> \o sqlState \o message

NewErrPacket(code, sqlState, message) ==
    <<255>> \o <<code % 256, (code \div 256) % 256>> \o <<35>> \o sqlState \o message

----------------------------------------------------------------------------
(* Packet codec *)

\* a header that leaves out the third length byte
PacketHeader_M(length, seq) ==
    <<length % 256, (length \div 256) % 256, 0, seq>>

\* the 4 header bytes WritePacket builds from len(payload) and sequence
PacketHeader(length, seq) ==
    <<length % 256, (length \div 256) % 256, (length \div 65536) % 256, seq>>

\* WritePacket without the length guard: the header keeps the low 24 bits
WritePacket_M(seq, payload) ==
    [err |-> "nil", bytes |-> PacketHeader(Len(payload), seq) \o payload]

\* bytes handed to w.Write, or the "payload too large" error
WritePacket(seq, payload) ==
    IF Len(payload) > MaxPacketPayload
    THEN [err |-> "payload too large", bytes |-> <<>>]
    ELSE [err |-> "nil", bytes |-> PacketHeader(Len(payload), seq) \o payload]

\* length field ReadPacket computes from the header
HeaderLength(header) == header[1] + 256 * header[2] + 65536 * header[3]

\* a reader that takes everything after the header of a non-empty frame off
\* the stream
ReadPacket_M(data, eof) ==
    LET none == [Length |-> 0, Sequence |-> 0, Payload |-> <<>>] IN
    IF Len(data) < 4 THEN
        IF ~eof THEN [err |-> "block", pkt |-> none, rest |-> data]
        ELSE IF Len(data) = 0
             THEN [err |-> "read header: EOF", pkt |-> none, rest |-> <<>>]
             ELSE [err |-> "read header: unexpected EOF", pkt |-> none, rest |-> <<>>]
    ELSE LET length == HeaderLength(data)
             seq == data[4]
             body == SliceFrom(data, 4) IN
         IF length = 0
         THEN [err |-> "nil", pkt |-> [Length |-> 0, Sequence |-> seq, Payload |-> <<>>],
               rest |-> body]
         ELSE IF Len(body) < length THEN
             IF ~eof THEN [err |-> "block", pkt |-> none, rest |-> data]
             ELSE IF Len(body) = 0
                  THEN [err |-> "read payload: EOF", pkt |-> none, rest |-> <<>>]
                  ELSE [err |-> "read payload: unexpected EOF", pkt |-> none,
                        rest |-> <<>>]
         ELSE [err |-> "nil",
               pkt |-> [Length |-> length, Sequence |-> seq,
                        Payload |-> Slice(body, 0, length)],
               rest |-> <<>>]

\* ReadPacket on a stream holding `data`, `eof` telling whether the peer has
\* closed after it.  err "block" means the read is still waiting for bytes.
ReadPacket(data, eof) ==
    LET none == [Length |-> 0, Sequence |-> 0, Payload |-> <<>>] IN
    IF Len(data) < 4 THEN
        IF ~eof THEN [err |-> "block", pkt |-> none, rest |-> data]
        ELSE IF Len(data) = 0
             THEN [err |-> "read header: EOF", pkt |-> none, rest |-> <<>>]
             ELSE [err |-> "read header: unexpected EOF", pkt |-> none, rest |-> <<>>]
    ELSE LET length == HeaderLength(data)
             seq == data[4]
             body == SliceFrom(data, 4) IN
         IF length = 0
         THEN [err |-> "nil", pkt |-> [Length |-> 0, Sequence |-> seq, Payload |-> <<>>],
               rest |-> body]
         ELSE IF Len(body) < length THEN
             IF ~eof THEN [err |-> "block", pkt |-> none, rest |-> data]
             ELSE IF Len(body) = 0
                  THEN [err |-> "read payload: EOF", pkt |-> none, rest |-> <<>>]
                  ELSE [err |-> "read payload: unexpected EOF", pkt |-> none,
                        rest |-> <<>>]
         ELSE [err |-> "nil",
               pkt |-> [Length |-> length, Sequence |-> seq,
                        Payload |-> Slice(body, 0, length)],
               rest |-> SliceFrom(body, length)]

\* errors.Is(err, io.EOF)
IsEOF(err) == err \in {"read header: EOF", "read payload: EOF"}

----------------------------------------------------------------------------
(* Credential verifier *)

\* crypto/sha1 stands behind this operator: a deterministic 20-byte digest of
\* a byte string.  The digest function itself is library code; the model uses
\* a small mixing function in its place.
RECURSIVE ByteSum(_, _)
ByteSum(data, j) == IF j > Len(data) THEN 0 ELSE data[j] + ByteSum(data, j + 1)

RECURSIVE WeightedSum(_, _)
WeightedSum(data, j) ==
    IF j > Len(data) THEN 0 ELSE (j * data[j]) + WeightedSum(data, j + 1)

sha1Sum(data) ==
    LET s1 == ByteSum(data, 1)
        s2 == WeightedSum(data, 1) IN
    [i \in 1..20 |-> (s2 + (i * s1) + (131 * i) + (7 * Len(data)) + 89) % 256]

\* a verifier whose comparison loop stops one byte early
verifyMySQLNativePassword_M(clientResp, password, scr) ==
    IF Len(clientResp) /= 20 \/ Len(scr) < 20 THEN FALSE
    ELSE LET stage1 == sha1Sum(password)
             stage2 == sha1Sum(stage1)
             candidate == sha1Sum(scr \o stage2) IN
         \A i \in 1..19 : clientResp[i] = XorByte(candidate[i], stage1[i])

verifyMySQLNativePassword(clientResp, password, scr) ==
    IF Len(clientResp) /= 20 \/ Len(scr) < 20 THEN FALSE
    ELSE LET stage1 == sha1Sum(password)
             stage2 == sha1Sum(stage1)
             candidate == sha1Sum(scr \o stage2) IN
         \A i \in 1..20 : clientResp[i] = XorByte(candidate[i], stage1[i])


----------------------------------------------------------------------------
(* Handshake *)

\* values rand.Read may produce for the connection id and the scramble
ConnIDs == {<<1, 2, 3, 4>>}
Scrambles == {[i \in 1..20 |-> i], [i \in 1..20 |-> (37 * i) % 256]}

GreetingPayload(connID, scramblePart1, scramblePart2) ==
    <<10>> \o StrServerVersion \o <<0>> \o connID \o scramblePart1 \o <<0>>
        \o <<15, 162>> \o <<33>> \o <<2, 0>> \o <<8, 0>> \o <<21>> \o Zeros(10)
        \o scramblePart2 \o <<0>> \o StrPluginName \o <<0>>

\* SendHandshake: the greeting frame (sequence 0) and the scramble it returns
SendHandshake(connID, scramblePart1, scramblePart2) ==
    LET w == WritePacket(0, GreetingPayload(connID, scramblePart1, scramblePart2)) IN
    [err |-> w.err, bytes |-> w.bytes,
     scramble |-> scramblePart1 \o Slice(scramblePart2, 0, 12)]

\* handleClientHandshakePacket up to its write: ret is the value returned
\* before any write ("write" when the function ends in WritePacket, "panic"
\* when a slice expression is out of range), resp the payload it writes.
handleClientHandshakePacket(payload, scr, seq) ==
    LET stop(r) == [ret |-> r, resp |-> <<>>, wseq |-> 0, username |-> <<>>,
                    verified |-> FALSE] IN
    IF Len(payload) < HandshakeMinLen THEN stop("ErrInvalidHandshake")
    ELSE IF UsernamePos > Len(payload) THEN stop("panic")
    ELSE LET u == ReadNullTerminatedString(SliceFrom(payload, UsernamePos)) IN
    IF u.err /= "nil" THEN stop("parse username: ErrInvalidPacket")
    ELSE LET pos1 == UsernamePos + u.n
             a == ReadLengthEncodedInt(SliceFrom(payload, pos1)) IN
    IF a.err /= "nil" THEN stop("parse auth len: ErrInvalidPacket")
    ELSE LET pos2 == pos1 + a.n
             hi == Add64(a.val, pos2) IN
    IF ~Neg64(hi) /\ ~U64Lt(hi, Len(payload) + 1) THEN stop("ErrInvalidPacket")
    ELSE IF Neg64(hi) \/ U64Low(hi) < pos2 THEN stop("panic")
    ELSE LET authResp == Slice(payload, pos2, U64Low(hi))
             ok == verifyMySQLNativePassword(authResp, StrPassword, scr) IN
         [ret |-> "write",
          resp |-> IF ok THEN NewOKPacket(U64(0), U64(0), 0)
                   ELSE NewErrPacket(ErrAccessDenied, Str28000,
                                     StrAccessDenied \o u.str \o StrQuote),
          wseq |-> NextSequence(seq),
          username |-> u.str,
          verified |-> ok]

----------------------------------------------------------------------------
(* Session commands *)

executeQuery(query) == [resp |-> NewOKPacket(U64(0), U64(0), 0), isErr |-> FALSE,
                        msg |-> <<>>, panic |-> FALSE]

\* handleCommand that lets an unknown command byte pass without an error
handleCommand_M(payload) ==
    IF Len(payload) = 0
    THEN [resp |-> <<>>, isErr |-> FALSE, msg |-> <<>>, panic |-> TRUE]
    ELSE
    LET cmd == payload[1]
        data == SliceFrom(payload, 1) IN
    IF cmd = COM_QUIT
    THEN [resp |-> <<>>, isErr |-> TRUE, msg |-> StrEOF, panic |-> FALSE]
    ELSE IF cmd = COM_INIT_DB
         THEN [resp |-> NewOKPacket(U64(0), U64(0), 0), isErr |-> FALSE, msg |-> <<>>,
               panic |-> FALSE]
    ELSE IF cmd = COM_QUERY THEN executeQuery(data)
    ELSE [resp |-> <<>>, isErr |-> FALSE, msg |-> <<>>, panic |-> FALSE]

\* handleCommand: (resp, err); resp <<>> with isErr FALSE is the nil
\* response; payload[0] on an empty payload panics
handleCommand(payload) ==
    IF Len(payload) = 0
    THEN [resp |-> <<>>, isErr |-> FALSE, msg |-> <<>>, panic |-> TRUE]
    ELSE
    LET cmd == payload[1]
        data == SliceFrom(payload, 1) IN
    IF cmd = COM_QUIT
    THEN [resp |-> <<>>, isErr |-> TRUE, msg |-> StrEOF, panic |-> FALSE]
    ELSE IF cmd = COM_INIT_DB
         THEN [resp |-> NewOKPacket(U64(0), U64(0), 0), isErr |-> FALSE, msg |-> <<>>,
               panic |-> FALSE]
    ELSE IF cmd = COM_QUERY THEN executeQuery(data)
    ELSE [resp |-> <<>>, isErr |-> TRUE, msg |-> StrUnsupported \o Itoa(cmd),
          panic |-> FALSE]

\* a session loop that hands every packet to handleCommand
LoopSkips_M(pkt) == FALSE

\* the test of Handle, line 71: the loop skips a packet without payload
LoopSkips(pkt) == Len(pkt.Payload) = 0

----------------------------------------------------------------------------
(* The client: what it puts on the connection *)

\* the scramble a client takes out of a greeting frame
GreetingScramble(frame) ==
    LET p == SliceFrom(frame, 4) IN Slice(p, 24, 32) \o Slice(p, 51, 63)

\* the mysql_native_password token a client computes
ClientResponse(password, scr) ==
    LET h1 == sha1Sum(password)
        h2 == sha1Sum(h1)
        candidate == sha1Sum(scr \o h2) IN
    [i \in 1..20 |-> XorByte(candidate[i], h1[i])]

Frame(seq, payload) == PacketHeader(Len(payload), seq) \o payload

HsFixed == <<133, 166, 255, 1>> \o <<0, 0, 0, 1>> \o <<33>> \o Zeros(23)

Users == {<<98, 111, 98>>, <<114, 111, 111, 116>>, <<97, 108, 105, 99, 101>>}
UserRoot == <<114, 111, 111, 116>>

WirePayload(user, lenenc, auth) == HsFixed \o user \o <<0>> \o lenenc \o auth

\* handshake responses laid out as the wire format says: 32 fixed bytes, the
\* user name, the length-encoded token length, the token
WirePayloads(scr) ==
    LET good == ClientResponse(StrPassword, scr)
        bad == [good EXCEPT ![1] = (good[1] + 1) % 256] IN
    {WirePayload(u, lengthEncode(U64(Len(a))), a) : u \in Users, a \in {good, bad, <<>>}}

\* responses with other length fields, and payloads too short to hold the fields
OddPayloads(scr) ==
    LET good == ClientResponse(StrPassword, scr) IN
    {WirePayload(UserRoot, l, good) :
            l \in {<<254>> \o U64(20),
                   <<254, 255, 255, 255, 255, 255, 255, 255, 255>>,
                   <<254, 0, 0, 0, 0, 0, 0, 0, 128>>,
                   <<254, 255, 255, 255, 255, 255, 255, 255, 127>>,
                   <<252, 255, 255>>,
                   <<251>>,
                   <<255>>}}
    \cup {WirePayload(UserRoot, <<252, 1>>, <<>>), HsFixed \o <<1, 1, 1, 1, 1, 1>>}
    \cup {Zeros(n) : n \in {0, 31, 32, 35, 36, 37, 38}}

HsFrames(scr) ==
    {Frame(1, p) : p \in WirePayloads(scr) \cup OddPayloads(scr)}
    \cup {Frame(255, WirePayload(u, <<20>>, ClientResponse(StrPassword, scr))) : u \in Users}
    \cup {<<5, 0, 0, 1, 7, 7>>}

CmdFrames ==
    {Frame(0, <<COM_QUIT>>), Frame(0, <<COM_INIT_DB, 100, 98>>),
     Frame(255, <<COM_QUERY, 113>>), Frame(255, <<4>>), Frame(0, <<255>>),
     Frame(0, <<>>), <<3, 0, 0, 0, COM_QUERY>>}

----------------------------------------------------------------------------
(* Connection.Handle: one connection, one worker *)

HsNone == [done |-> FALSE, seq |-> 0, payload |-> <<>>, ret |-> "none",
           verified |-> FALSE, username |-> <<>>]

LastNone == [kind |-> "none", seq |-> 0, payload |-> <<>>, wrote |-> <<>>,
             werr |-> FALSE]

\* connections accepted by the listener, each handled by its own worker
Conns == {1, 2}

\* a connection just accepted: Handle has not run yet.  token is what the
\* client put into its handshake response; nverify, vscr and verified record
\* the calls of the credential verifier.
ConnNone == [pc |-> "start", inbuf |-> <<>>, out |-> <<>>, scramble |-> <<>>,
             sent |-> 0, token |-> <<>>, nverify |-> 0, vscr |-> <<>>,
             verified |-> FALSE]

Init ==
    /\ pc = "start"
    /\ inbuf = <<>>
    /\ inEOF = FALSE
    /\ out = <<>>
    /\ scramble = <<>>
    /\ sequence = 0
    /\ sent = 0
    /\ hs = HsNone
    /\ last = LastNone
    /\ ncmd = 0
    /\ cfn = "none"
    /\ carg = <<>>
    /\ cres = <<>>
    /\ conns = [c \in Conns |-> ConnNone]

\* Handle, lines 47-52: send the greeting, keep the scramble
HandleSendHandshake ==
    /\ pc = "start"
    /\ \E c \in ConnIDs, s \in Scrambles, wok \in BOOLEAN :
         LET r == SendHandshake(c, Slice(s, 0, 8), Slice(s, 8, 20)) IN
         IF r.err = "nil" /\ wok
         THEN /\ out' = Append(out, r.bytes)
              /\ scramble' = r.scramble
              /\ sequence' = 1
              /\ pc' = "handshake"
         ELSE /\ pc' = "closed"
              /\ UNCHANGED <<out, scramble, sequence>>
    /\ UNCHANGED <<inbuf, inEOF, sent, hs, last, ncmd, codecVars, conns>>

\* Handle, lines 54-58: HandleHandshake reads one packet and answers it; any
\* non-nil result, and a panic caught by the deferred recover, end the worker
HandleHandshake ==
    /\ pc = "handshake"
    /\ LET r == ReadPacket(inbuf, inEOF) IN
       /\ r.err /= "block"
       /\ inbuf' = r.rest
       /\ IF r.err /= "nil"
          THEN /\ hs' = [HsNone EXCEPT !.done = TRUE, !.ret = "read handshake"]
               /\ pc' = "closed"
               /\ out' = out
          ELSE LET o == handleClientHandshakePacket(r.pkt.Payload, scramble,
                                                    r.pkt.Sequence)
                   w == WritePacket(o.wseq, o.resp) IN
               \E wok \in BOOLEAN :
                 LET ret == IF o.ret /= "write" THEN o.ret
                            ELSE IF w.err = "nil" /\ wok THEN "nil"
                            ELSE "write error" IN
                 /\ hs' = [done |-> TRUE, seq |-> r.pkt.Sequence,
                           payload |-> r.pkt.Payload, ret |-> ret,
                           verified |-> o.verified, username |-> o.username]
                 /\ out' = IF ret = "nil" THEN Append(out, w.bytes) ELSE out
                 /\ pc' = IF ret = "nil" THEN "loop" ELSE "closed"
    /\ UNCHANGED <<inEOF, scramble, sequence, sent, last, ncmd, codecVars, conns>>

\* Handle, lines 60-96: one iteration of the session loop
HandleLoop ==
    /\ pc = "loop"
    /\ LET r == ReadPacket(inbuf, inEOF) IN
       /\ r.err /= "block"
       /\ inbuf' = r.rest
       /\ IF r.err /= "nil"
          THEN /\ last' = [LastNone EXCEPT !.kind = "readerr"]
               /\ pc' = "closed"
               /\ UNCHANGED <<out, ncmd>>
          ELSE IF LoopSkips(r.pkt)
          THEN /\ last' = [LastNone EXCEPT !.kind = "empty", !.seq = r.pkt.Sequence]
               /\ UNCHANGED <<pc, out, ncmd>>
          ELSE LET c == handleCommand(r.pkt.Payload)
                   body == IF c.isErr THEN NewErrPacket(ErrSyntax, Str42000, c.msg)
                           ELSE c.resp
                   w == WritePacket(NextSequence(r.pkt.Sequence), body) IN
               /\ ncmd' = ncmd + 1
               /\ IF c.panic
                  THEN /\ last' = [kind |-> "cmd", seq |-> r.pkt.Sequence,
                                   payload |-> r.pkt.Payload, wrote |-> <<>>,
                                   werr |-> FALSE]
                       /\ pc' = "closed"
                       /\ out' = out
                  ELSE IF ~c.isErr /\ c.resp = <<>>
                  THEN /\ last' = [kind |-> "cmd", seq |-> r.pkt.Sequence,
                                   payload |-> r.pkt.Payload, wrote |-> <<>>,
                                   werr |-> FALSE]
                       /\ UNCHANGED <<pc, out>>
                  ELSE \E wok \in BOOLEAN :
                         IF w.err = "nil" /\ wok
                         THEN /\ last' = [kind |-> "cmd", seq |-> r.pkt.Sequence,
                                          payload |-> r.pkt.Payload,
                                          wrote |-> w.bytes, werr |-> FALSE]
                              /\ out' = Append(out, w.bytes)
                              /\ pc' = pc
                         ELSE /\ last' = [kind |-> "cmd", seq |-> r.pkt.Sequence,
                                          payload |-> r.pkt.Payload,
                                          wrote |-> <<>>, werr |-> TRUE]
                              /\ out' = out
                              /\ pc' = "closed"
    /\ UNCHANGED <<inEOF, scramble, sequence, sent, hs, codecVars, conns>>

\* the client answers the greeting with a handshake response (or with bytes
\* that are none)
ClientSendHandshake ==
    /\ pc = "handshake"
    /\ sent = 0
    /\ ~inEOF
    /\ \E f \in HsFrames(GreetingScramble(out[1])) : inbuf' = inbuf \o f
    /\ sent' = 1
    /\ UNCHANGED <<pc, inEOF, out, scramble, sequence, hs, last, ncmd, codecVars, conns>>

\* the client sends a command packet; it need not wait for earlier answers
ClientSendCommand ==
    /\ pc \in {"handshake", "loop"}
    /\ sent >= 1
    /\ sent < MaxSends
    /\ ~inEOF
    /\ \E f \in CmdFrames : inbuf' = inbuf \o f
    /\ sent' = sent + 1
    /\ UNCHANGED <<pc, inEOF, out, scramble, sequence, hs, last, ncmd, codecVars, conns>>

\* the client closes its side of the connection
ClientClose ==
    /\ pc \in {"handshake", "loop"}
    /\ ~inEOF
    /\ inEOF' = TRUE
    /\ UNCHANGED <<pc, inbuf, out, scramble, sequence, sent, hs, last, ncmd, codecVars, conns>>

Next ==
    \/ HandleSendHandshake
    \/ HandleHandshake
    \/ HandleLoop
    \/ ClientSendHandshake
    \/ ClientSendCommand
    \/ ClientClose

Spec == Init /\ [][Next]_vars

-----------------------------------------------------------------------------
(* Several connections, one worker each, their steps interleaved            *)

\* a worker that takes the scramble of another connection
WorkerScramble_M(c) == conns[CHOOSE d \in Conns : d /= c].scramble

\* the local variable scramble of the worker of connection c
WorkerScramble(c) == conns[c].scramble

\* Handle, lines 47-52, on connection c
MultiSendHandshake(c) ==
    /\ conns[c].pc = "start"
    /\ \E id \in ConnIDs, s \in Scrambles, wok \in BOOLEAN :
         LET r == SendHandshake(id, Slice(s, 0, 8), Slice(s, 8, 20)) IN
         IF r.err = "nil" /\ wok
         THEN conns' = [conns EXCEPT ![c].out = Append(@, r.bytes),
                                     ![c].scramble = r.scramble,
                                     ![c].pc = "handshake"]
         ELSE conns' = [conns EXCEPT ![c].pc = "closed"]
    /\ UNCHANGED <<connVars, codecVars>>

\* tokens a client of connection c may send: computed from the greeting of
\* c, computed from the greeting of any connection greeted so far, or none
MultiTokens ==
    {ClientResponse(StrPassword, GreetingScramble(conns[d].out[1])) :
        d \in {e \in Conns : Len(conns[e].out) >= 1}} \cup {<<>>}

\* the client of connection c answers the greeting
MultiClientHandshake(c) ==
    /\ conns[c].pc = "handshake"
    /\ conns[c].sent = 0
    /\ \E t \in MultiTokens :
         conns' = [conns EXCEPT
                     ![c].inbuf = @ \o Frame(1, WirePayload(UserRoot, <<Len(t)>>, t)),
                     ![c].token = t,
                     ![c].sent = 1]
    /\ UNCHANGED <<connVars, codecVars>>

\* Handle, lines 54-58, on connection c
MultiHandleHandshake(c) ==
    /\ conns[c].pc = "handshake"
    /\ LET r == ReadPacket(conns[c].inbuf, FALSE) IN
       /\ r.err = "nil"
       /\ LET o == handleClientHandshakePacket(r.pkt.Payload, WorkerScramble(c),
                                                r.pkt.Sequence)
              w == WritePacket(o.wseq, o.resp) IN
          \E wok \in BOOLEAN :
            LET ret == IF o.ret /= "write" THEN o.ret
                       ELSE IF w.err = "nil" /\ wok THEN "nil"
                       ELSE "write error" IN
            conns' = [conns EXCEPT
                        ![c].inbuf = r.rest,
                        ![c].out = IF ret = "nil" THEN Append(@, w.bytes) ELSE @,
                        ![c].pc = IF ret = "nil" THEN "loop" ELSE "closed",
                        ![c].nverify = IF o.ret = "write" THEN @ + 1 ELSE @,
                        ![c].vscr = IF o.ret = "write" THEN WorkerScramble(c) ELSE @,
                        ![c].verified = o.verified]
    /\ UNCHANGED <<connVars, codecVars>>

\* after the handshake the client of connection c sends a query, or a
\* handshake response once more
MultiClientSend(c) ==
    /\ conns[c].pc \in {"handshake", "loop"}
    /\ conns[c].sent >= 1
    /\ conns[c].sent < MaxAttempts
    /\ \E f \in {Frame(0, <<COM_QUERY, 113>>),
                 Frame(3, WirePayload(UserRoot, <<Len(conns[c].token)>>, conns[c].token))} :
         conns' = [conns EXCEPT ![c].inbuf = @ \o f, ![c].sent = @ + 1]
    /\ UNCHANGED <<connVars, codecVars>>

\* Handle, lines 60-96, on connection c: one iteration of the session loop
MultiHandleLoop(c) ==
    /\ conns[c].pc = "loop"
    /\ LET r == ReadPacket(conns[c].inbuf, FALSE) IN
       /\ r.err = "nil"
       /\ IF LoopSkips(r.pkt)
          THEN conns' = [conns EXCEPT ![c].inbuf = r.rest]
          ELSE LET cm == handleCommand(r.pkt.Payload)
                   body == IF cm.isErr THEN NewErrPacket(ErrSyntax, Str42000, cm.msg)
                           ELSE cm.resp
                   w == WritePacket(NextSequence(r.pkt.Sequence), body) IN
               IF cm.panic
               THEN conns' = [conns EXCEPT ![c].inbuf = r.rest, ![c].pc = "closed"]
               ELSE IF ~cm.isErr /\ cm.resp = <<>>
               THEN conns' = [conns EXCEPT ![c].inbuf = r.rest]
               ELSE \E wok \in BOOLEAN :
                      IF w.err = "nil" /\ wok
                      THEN conns' = [conns EXCEPT ![c].inbuf = r.rest,
                                                  ![c].out = Append(@, w.bytes)]
                      ELSE conns' = [conns EXCEPT ![c].inbuf = r.rest,
                                                  ![c].pc = "closed"]
    /\ UNCHANGED <<connVars, codecVars>>

NextMulti ==
    \E c \in Conns :
        \/ MultiSendHandshake(c)
        \/ MultiClientHandshake(c)
        \/ MultiHandleHandshake(c)
        \/ MultiClientSend(c)
        \/ MultiHandleLoop(c)

SpecMulti == Init /\ [][NextMulti]_vars


----------------------------------------------------------------------------
(* The wire format of the client handshake response, as the protocol gives *)
(* it: capability_flags:4 max_packet_size:4 charset:1 reserved:23, then    *)
(* username:cstring, auth_response_len:lenenc, auth_response               *)

WireUser(payload) == ReadNullTerminatedString(SliceFrom(payload, 32))

WireAuthLen(payload) ==
    ReadLengthEncodedInt(SliceFrom(payload, 32 + WireUser(payload).n))

WireAuthPos(payload) ==
    32 + WireUser(payload).n + WireAuthLen(payload).n

WireFormatOK(payload) ==
    /\ Len(payload) >= 32
    /\ WireUser(payload).err = "nil"
    /\ WireAuthLen(payload).err = "nil"
    /\ U64Lt(WireAuthLen(payload).val, 16777216)
    /\ WireAuthPos(payload) + U64Low(WireAuthLen(payload).val) <= Len(payload)

WireAuth(payload) ==
    Slice(payload, WireAuthPos(payload),
          WireAuthPos(payload) + U64Low(WireAuthLen(payload).val))

Contains(str, sub) ==
    \E i \in 0..(Len(str) - Len(sub)) : SubSeq(str, i + 1, i + Len(sub)) = sub

\* fields of a written frame
FrameSeq(frame) == frame[4]
FramePayload(frame) == SliceFrom(frame, 4)
IsOKFrame(frame) == Len(frame) >= 5 /\ frame[5] = 0
IsErrFrame(frame, code, sqlState) ==
    LET p == FramePayload(frame) IN
    /\ Len(p) >= 9
    /\ p[1] = 255
    /\ p[2] + 256 * p[3] = code
    /\ p[4] = 35
    /\ Slice(p, 4, 9) = sqlState
ErrMessage(frame) == SliceFrom(FramePayload(frame), 9)

\* the handshake ran to its end and no transport failure cut it short
HsAnswered == hs.done /\ hs.ret \notin {"read handshake", "write error"}

----------------------------------------------------------------------------
(* Claims *)

\* C1: a command packet is dispatched (handleCommand is called) only after a
\* handshake whose credential verification succeeded; when verification fails
\* the connection is closed and no later packet of that client is read.
C1_CommandOnlyAfterAuth ==
    /\ ncmd > 0 => (hs.done /\ hs.verified)
    /\ (hs.done /\ ~hs.verified) => pc = "closed"

\* C2: a quit command (first payload byte 0x01) gets no response packet and
\* ends the loop: the connection is closed and nothing more is read.
C2_QuitEndsLoop ==
    (last.kind = "cmd" /\ last.payload[1] = COM_QUIT)
        => (last.wrote = <<>> /\ pc = "closed")

\* C3: for a handshake response laid out as the wire format prescribes and
\* received with sequence s, HandleHandshake writes exactly one packet, with
\* sequence (s+1) mod 256: OK when the token is the right one for the
\* password and the saved scramble, otherwise ERR 1045/28000 with a message
\* containing the user name.
C3_HandshakeAnswer ==
    (HsAnswered /\ WireFormatOK(hs.payload))
        => /\ Len(out) >= 2
           /\ last.kind = "none" => Len(out) = 2
           /\ FrameSeq(out[2]) = (hs.seq + 1) % 256
           /\ IF WireAuth(hs.payload) = ClientResponse(StrPassword, scramble)
              THEN IsOKFrame(out[2])
              ELSE /\ IsErrFrame(out[2], 1045, Str28000)
                   /\ Contains(ErrMessage(out[2]), WireUser(hs.payload).str)

\* C4: for every handshake-response payload handleClientHandshakePacket
\* returns an error or writes one OK/ERR packet; it never raises a runtime
\* fault (out-of-range slice) for the recover in Handle to catch.
C4_HandshakeNeverPanics == hs.done => hs.ret /= "panic"

\* C5: the parser takes the user name from byte offset 32 of the payload, the
\* length-encoded token length right after its terminator and then the
\* token; a payload shorter than 32 bytes fails with InvalidHandshake.
C5_UsernameAtOffset32 ==
    HsAnswered =>
        /\ Len(hs.payload) < 32 => hs.ret = "ErrInvalidHandshake"
        /\ hs.ret = "nil" =>
              /\ WireFormatOK(hs.payload)
              /\ hs.username = WireUser(hs.payload).str
              /\ hs.verified =
                    (WireAuth(hs.payload) = ClientResponse(StrPassword, scramble))

\* where the handshake parser, as written, finds the length field, and
\* whether the declared length runs past the end of the payload
ParsedLenField(payload) ==
    LET u == ReadNullTerminatedString(SliceFrom(payload, UsernamePos)) IN
    [ok |-> Len(payload) >= UsernamePos /\ u.err = "nil"
            /\ ReadLengthEncodedInt(SliceFrom(payload, UsernamePos + u.n)).err = "nil",
     a |-> ReadLengthEncodedInt(SliceFrom(payload, UsernamePos + u.n)),
     pos |-> UsernamePos + u.n + ReadLengthEncodedInt(SliceFrom(payload, UsernamePos + u.n)).n]

DeclaredPastEnd(payload) ==
    LET f == ParsedLenField(payload) IN
    /\ f.ok
    /\ \/ ~U64Lt(f.a.val, 16777216)
       \/ f.pos + U64Low(f.a.val) > Len(payload)

\* C6: for every declared token length L of the unsigned 64-bit range, if the
\* position after the length field plus L exceeds the payload length the
\* parser fails with InvalidPacket and writes nothing, also for L >= 2^63.
C6_DeclaredLengthChecked ==
    (HsAnswered /\ DeclaredPastEnd(hs.payload))
        => (hs.ret = "ErrInvalidPacket" /\ Len(out) = 1)

\* a step of the session loop that reads a packet with an unsupported
\* command byte
LoopReadsUnsupported ==
    LET r == ReadPacket(inbuf, inEOF) IN
    /\ pc = "loop"
    /\ r.err = "nil"
    /\ Len(r.pkt.Payload) > 0
    /\ r.pkt.Payload[1] \notin {COM_QUIT, COM_INIT_DB, COM_QUERY}
    /\ inbuf' = r.rest
    /\ sent' = sent
    /\ inEOF' = inEOF

\* C7: after the handshake, a command packet whose command byte is not quit,
\* select-database or query gets exactly one ERR response (unless the
\* transport refuses the write) and the connection stays open for the next
\* command packet.
C7_UnsupportedCommandAnswered ==
    [][(LoopReadsUnsupported /\ ~last'.werr)
          => /\ pc' = "loop"
             /\ Len(out') = Len(out) + 1
             /\ IsErrFrame(out'[Len(out')], ErrSyntax, Str42000)
             /\ FrameSeq(out'[Len(out')]) = (ReadPacket(inbuf, inEOF).pkt.Sequence + 1) % 256
             /\ ncmd' = ncmd + 1]_vars

\* an unsupported command was answered with ERR and the next command packet
\* was then read and answered on the same connection
W7_NextCommandAnswered ==
    /\ pc = "loop"
    /\ ncmd = 2
    /\ Len(out) = 4
    /\ out[3] = Frame(0, NewErrPacket(ErrSyntax, Str42000, StrUnsupported \o <<52>>))
    /\ IsOKFrame(out[4])
    /\ last.payload[1] = COM_INIT_DB


----------------------------------------------------------------------------
(* The codec and the scalar encoders as pure functions: each action applies *)
(* one of them to an input drawn from a bounded set and keeps the result    *)

\* largest value of the run 0..MaxSmallValue given to lengthEncode one by one
MaxSmallValue == 300

SmallBytes == {0, 1, 255}
SeqBytes == {0, 7, 255}

SmallPayloads == UNION {[1..n -> SmallBytes] : n \in 0..MaxPayloadLen}
LongPayloads == {[i \in 1..n |-> i % 256] : n \in {255, 256, 65535, 65536}}

\* payload lengths on both sides of every byte of the 24-bit length field
BoundaryLengths == {0, 1, 255, 256, 65535, 65536, 16777214, 16777215}

\* uint64 values with the width of their shortest length-encoded form
LenEncCases ==
    {[v |-> U64(n), w |-> IF n < 251 THEN 1 ELSE 3] : n \in 0..MaxSmallValue}
    \cup {[v |-> U64(65535), w |-> 3],
          [v |-> U64(65536), w |-> 4],
          [v |-> U64(16777215), w |-> 4],
          [v |-> U64(16777216), w |-> 9],
          [v |-> <<255, 255, 255, 255, 0, 0, 0, 0>>, w |-> 9],
          [v |-> <<0, 0, 0, 0, 1, 0, 0, 0>>, w |-> 9],
          [v |-> <<0, 0, 0, 0, 0, 0, 0, 128>>, w |-> 9],
          [v |-> <<255, 255, 255, 255, 255, 255, 255, 255>>, w |-> 9]}

DecodeInputs ==
    {<<>>, <<0>>, <<250>>, <<251>>, <<252>>, <<252, 1>>, <<252, 1, 2>>,
     <<253, 1, 2>>, <<253, 1, 2, 3>>, <<254, 1, 0, 0, 0, 0, 0, 0>>,
     <<254, 1, 0, 0, 0, 0, 0, 0, 0>>, <<255>>, <<252, 3, 0>>, <<0, 9>>, <<251, 9>>,
     <<253>>, <<253, 1>>, <<253, 7, 0, 0>>, <<253, 1, 2, 3, 4>>, <<254>>,
     <<254, 1, 2, 3, 4, 5, 6, 7, 8>>, <<254, 1, 2, 3, 4, 5, 6, 7, 8, 9>>,
     <<255, 1, 2, 3, 4, 5, 6, 7, 8>>, <<252, 255, 255, 0>>}

\* WritePacket into an empty buffer, then ReadPacket from that buffer
CodecWriteRead ==
    /\ cfn = "none"
    /\ \E seq \in SeqBytes, payload \in SmallPayloads \cup LongPayloads :
         LET w == WritePacket(seq, payload) IN
         /\ cfn' = "WriteRead"
         /\ carg' = [seq |-> seq, payload |-> payload]
         /\ cres' = [w |-> w.err, r |-> ReadPacket(w.bytes, TRUE)]
    /\ UNCHANGED <<connVars, conns>>

\* the header WritePacket builds for a payload length, and the length
\* ReadPacket takes out of it
CodecHeader ==
    /\ cfn = "none"
    /\ \E seq \in SeqBytes, length \in BoundaryLengths :
         /\ cfn' = "Header"
         /\ carg' = [seq |-> seq, length |-> length]
         /\ cres' = [length |-> HeaderLength(PacketHeader(length, seq)),
                     seq |-> PacketHeader(length, seq)[4]]
    /\ UNCHANGED <<connVars, conns>>

\* lengthEncode, then ReadLengthEncodedInt of its bytes
CodecLenEnc ==
    /\ cfn = "none"
    /\ \E c \in LenEncCases :
         /\ cfn' = "LenEnc"
         /\ carg' = c
         /\ cres' = [enc |-> lengthEncode(c.v),
                     dec |-> ReadLengthEncodedInt(lengthEncode(c.v))]
    /\ UNCHANGED <<connVars, conns>>

\* ReadLengthEncodedInt of arbitrary bytes
CodecDecode ==
    /\ cfn = "none"
    /\ \E d \in DecodeInputs :
         /\ cfn' = "Decode"
         /\ carg' = d
         /\ cres' = ReadLengthEncodedInt(d)
    /\ UNCHANGED <<connVars, conns>>

StrWrong == <<119, 114, 111, 110, 103>>

VerifyPasswords == {StrPassword, StrWrong}

VerifyScrambles ==
    Scrambles \cup {[i \in 1..19 |-> i], [i \in 1..21 |-> (3 * i) % 256]}

\* tokens a client may send: the right one for "password", the same with one
\* byte changed, and tokens of other lengths
VerifyResponses(scr) ==
    LET good == ClientResponse(StrPassword, scr) IN
    {good, [good EXCEPT ![1] = (good[1] + 1) % 256],
     [good EXCEPT ![20] = (good[20] + 128) % 256],
     SubSeq(good, 1, 19), good \o <<0>>, <<>>}

\* verifyMySQLNativePassword on a token, a password and a scramble
CodecVerify ==
    /\ cfn = "none"
    /\ \E password \in VerifyPasswords, scr \in VerifyScrambles :
         \E resp \in VerifyResponses(scr) :
           /\ cfn' = "Verify"
           /\ carg' = [resp |-> resp, password |-> password, scr |-> scr]
           /\ cres' = [ok |-> verifyMySQLNativePassword(resp, password, scr)]
    /\ UNCHANGED <<connVars, conns>>

\* byte streams that end (the peer has closed) after the bytes shown
ReadInputs ==
    {<<>>, <<5>>, <<5, 0, 0>>, <<5, 0, 0, 1>>, <<5, 0, 0, 1, 7, 7>>,
     <<0, 0, 0, 9>>, <<0, 0, 0, 9, 1, 0, 0, 2, 42>>, <<1, 0, 0, 3, 42>>,
     <<2, 0, 0, 255, 42, 43, 0, 0>>}

\* ReadPacket on a stream that ends after the given bytes
CodecRead ==
    /\ cfn = "none"
    /\ \E d \in ReadInputs :
         /\ cfn' = "Read"
         /\ carg' = d
         /\ cres' = ReadPacket(d, TRUE)
    /\ UNCHANGED <<connVars, conns>>

\* WritePacket into an empty buffer: the error and the writes the buffer saw
CodecWrite ==
    /\ cfn = "none"
    /\ \E seq \in SeqBytes, payload \in SmallPayloads :
         LET w == WritePacket(seq, payload) IN
         /\ cfn' = "Write"
         /\ carg' = [seq |-> seq, payload |-> payload]
         /\ cres' = [err |-> w.err,
                     writes |-> IF w.err = "nil" THEN <<w.bytes>> ELSE <<>>]
    /\ UNCHANGED <<connVars, conns>>

\* WritePacket of a payload at the 24-bit limit and one byte over it; of the
\* payload and the write only the lengths and the header are kept
CodecWriteLarge ==
    /\ cfn = "none"
    /\ \E seq \in {255}, length \in {MaxPacketPayload, MaxPacketPayload + 1} :
         \E w \in {WritePacket(seq, Zeros(length))} :
           /\ cfn' = "WriteLarge"
           /\ carg' = [seq |-> seq, length |-> length]
           /\ cres' = [err |-> w.err,
                       nwrites |-> IF w.err = "nil" THEN 1 ELSE 0,
                       nbytes |-> Len(w.bytes),
                       header |-> IF Len(w.bytes) >= 4 THEN SubSeq(w.bytes, 1, 4)
                                  ELSE <<>>]
    /\ UNCHANGED <<connVars, conns>>

\* uint64 arguments of NewOKPacket, one or two for each encoded width
OKCounts ==
    {U64(0), U64(1), U64(2), U64(250), U64(251), U64(65535), U64(65536),
     U64(16777216), <<255, 255, 255, 255, 255, 255, 255, 255>>}

\* uint16 arguments of NewOKPacket and NewErrPacket
Uint16Cases == {0, 2, 255, 256, 1045, 1064, 65535}

\* NewOKPacket on affectedRows, lastInsertID and status
CodecOK ==
    /\ cfn = "none"
    /\ \E affectedRows \in OKCounts, lastInsertID \in OKCounts, status \in Uint16Cases :
         /\ cfn' = "OK"
         /\ carg' = [affectedRows |-> affectedRows, lastInsertID |-> lastInsertID,
                     status |-> status]
         /\ cres' = [bytes |-> NewOKPacket(affectedRows, lastInsertID, status)]
    /\ UNCHANGED <<connVars, conns>>

\* "Access denied", the message of TestErrPacketFormat
StrDenied == <<65, 99, 99, 101, 115, 115, 32, 100, 101, 110, 105, 101, 100>>

\* sqlState and message arguments of NewErrPacket: the strings the server
\* uses, the empty string, and strings holding a NUL or a '#'
ErrStates == {Str28000, Str42000, <<>>, <<35, 35>>, <<72, 89, 48, 48, 48, 0>>}
ErrMessages == {StrDenied, StrEOF, <<>>, <<0>>, <<35, 0, 255>>}

\* NewErrPacket on code, sqlState and message
CodecErr ==
    /\ cfn = "none"
    /\ \E code \in Uint16Cases, sqlState \in ErrStates, message \in ErrMessages :
         /\ cfn' = "Err"
         /\ carg' = [code |-> code, sqlState |-> sqlState, message |-> message]
         /\ cres' = [bytes |-> NewErrPacket(code, sqlState, message)]
    /\ UNCHANGED <<connVars, conns>>

\* sequence numbers of two packets written one after the other
SeqPairs == {<<0, 1>>, <<255, 0>>, <<7, 7>>}

\* two WritePacket calls on one stream, then two ReadPacket calls on it
CodecStream ==
    /\ cfn = "none"
    /\ \E sq \in SeqPairs, p1 \in SmallPayloads, p2 \in SmallPayloads :
         LET w1 == WritePacket(sq[1], p1)
             w2 == WritePacket(sq[2], p2)
             r1 == ReadPacket(w1.bytes \o w2.bytes, TRUE)
             r2 == ReadPacket(r1.rest, TRUE) IN
         /\ cfn' = "Stream"
         /\ carg' = [seq1 |-> sq[1], p1 |-> p1, seq2 |-> sq[2], p2 |-> p2]
         /\ cres' = [w1 |-> w1, w2 |-> w2, r1 |-> r1, r2 |-> r2]
    /\ UNCHANGED <<connVars, conns>>

NextCodec ==
    \/ CodecWriteRead
    \/ CodecHeader
    \/ CodecLenEnc
    \/ CodecDecode
    \/ CodecVerify
    \/ CodecRead
    \/ CodecWrite
    \/ CodecWriteLarge
    \/ CodecOK
    \/ CodecErr
    \/ CodecStream

SpecCodec == Init /\ [][NextCodec]_vars

\* C8: for any payload of at most 0xFFFFFF bytes (the empty one included) and
\* any sequence byte, ReadPacket of the bytes WritePacket wrote succeeds and
\* gives back the same sequence and payload, with Length the payload length.
C8_PacketRoundTrip ==
    /\ cfn = "WriteRead" =>
          /\ cres.w = "nil"
          /\ cres.r.err = "nil"
          /\ cres.r.pkt.Sequence = carg.seq
          /\ cres.r.pkt.Payload = carg.payload
          /\ cres.r.pkt.Length = Len(carg.payload)
          /\ cres.r.rest = <<>>
    /\ cfn = "Header" => (cres.length = carg.length /\ cres.seq = carg.seq)

\* a payload that needs the third length byte went through the round trip
W8_LongPayloadRoundTrip ==
    /\ cfn = "WriteRead"
    /\ Len(carg.payload) = 65536
    /\ carg.seq = 255
    /\ cres.r.pkt.Length = 65536

\* C9: for every unsigned 64-bit v, ReadLengthEncodedInt(lengthEncode(v)) is
\* (v, w) without error, w the minimal width of v (1 below 251, 3 below 2^16,
\* 4 below 2^24, 9 otherwise), and lengthEncode emits exactly w bytes.
C9_LenEncRoundTrip ==
    cfn = "LenEnc" =>
        /\ cres.dec.err = "nil"
        /\ cres.dec.val = carg.v
        /\ cres.dec.n = carg.w
        /\ Len(cres.enc) = carg.w

\* the value 251, the first that no longer fits the 1-byte form, was encoded
\* and decoded
W9_FirstThreeByteValue ==
    /\ cfn = "LenEnc"
    /\ carg.v = U64(251)
    /\ cres.enc = <<252, 251, 0>>
    /\ cres.dec.n = 3

\* C10: decoding first byte 0xFB gives a NULL indicator with 1 byte consumed,
\* and that result can be told apart from the result of decoding integer
\* zero (first byte 0x00).
C10_NullDistinctFromZero ==
    (cfn = "Decode" /\ carg = <<251>>)
        => /\ cres.err = "nil"
           /\ cres.n = 1
           /\ cres /= ReadLengthEncodedInt(<<0>>)


\* C11: verifyMySQLNativePassword(resp, password, scramble) is false when
\* resp is not exactly 20 bytes or scramble is shorter than 20 bytes;
\* otherwise it is true exactly when every resp[i] equals
\* H(scramble ++ H(H(password)))[i] XOR H(password)[i].
C11_VerifyMatchesScheme ==
    cfn = "Verify" =>
        cres.ok = (/\ Len(carg.resp) = 20
                   /\ Len(carg.scr) >= 20
                   /\ carg.resp = ClientResponse(carg.password, carg.scr))

\* a 20-byte token that differs from the expected one in its last byte only
\* was refused
W11_LastByteDecides ==
    /\ cfn = "Verify"
    /\ carg.password = StrPassword
    /\ Len(carg.resp) = 20
    /\ Len(carg.scr) = 20
    /\ SubSeq(carg.resp, 1, 19) = SubSeq(ClientResponse(StrPassword, carg.scr), 1, 19)
    /\ carg.resp[20] /= ClientResponse(StrPassword, carg.scr)[20]
    /\ ~cres.ok


\* the stream holds a whole frame: 4 header bytes and the declared payload
HoldsFrame(d) == Len(d) >= 4 /\ Len(d) - 4 >= HeaderLength(d)

\* C12: ReadPacket fails when the stream ends before 4 header bytes or before
\* the declared payload bytes; the failure for a clean end of stream with no
\* header byte read (io.EOF) can be told from the failure for a short header
\* or a short payload; a header declaring length 0 gives a packet with an
\* empty payload and consumes exactly 4 bytes.
C12_TruncationDistinctFromEOF ==
    cfn = "Read" =>
        /\ ~HoldsFrame(carg) => cres.err /= "nil"
        /\ Len(carg) = 0 => IsEOF(cres.err)
        /\ (~HoldsFrame(carg) /\ Len(carg) > 0) => ~IsEOF(cres.err)
        /\ (Len(carg) >= 4 /\ HeaderLength(carg) = 0) =>
              /\ cres.err = "nil"
              /\ cres.pkt.Payload = <<>>
              /\ cres.pkt.Length = 0
              /\ cres.rest = SliceFrom(carg, 4)


\* C13: WritePacket with a payload longer than 0xFFFFFF bytes returns an
\* error and writes nothing; for a payload within the limit it issues exactly
\* one write: the 3-byte little-endian length, the sequence byte, the payload.
C13_OversizeRejected ==
    /\ cfn = "Write" =>
          /\ cres.err = "nil"
          /\ Len(cres.writes) = 1
          /\ cres.writes[1] =
                <<Len(carg.payload) % 256, (Len(carg.payload) \div 256) % 256,
                  (Len(carg.payload) \div 65536) % 256, carg.seq>> \o carg.payload
    /\ cfn = "WriteLarge" =>
          IF carg.length > 16777215
          THEN cres.err /= "nil" /\ cres.nwrites = 0 /\ cres.nbytes = 0
          ELSE /\ cres.err = "nil"
               /\ cres.nwrites = 1
               /\ cres.nbytes = 4 + carg.length
               /\ cres.header = <<255, 255, 255, carg.seq>>

\* a payload of 0x1000000 bytes was refused with nothing written
W13_OneByteOverLimit ==
    /\ cfn = "WriteLarge"
    /\ carg.length = 16777216
    /\ cres.err = "payload too large"
    /\ cres.nwrites = 0


\* bytes the form announced by a first byte occupies, the first byte included
FormWidth(first) ==
    IF first = 252 THEN 3 ELSE IF first = 253 THEN 4 ELSE IF first = 254 THEN 9 ELSE 1

\* C14: ReadLengthEncodedInt fails, returning value 0 and consumed 0, on an
\* empty input, on first byte 0xFF, and on 0xFC, 0xFD, 0xFE followed by fewer
\* than 2, 3, 8 bytes; on every other input it succeeds with consumed 1, 3, 4
\* or 9 and the little-endian value of the bytes of that form, minimal or not.
C14_LenEncDecode ==
    cfn = "Decode" =>
        IF Len(carg) = 0 \/ carg[1] = 255 \/ Len(carg) < FormWidth(carg[1])
        THEN /\ cres.err = "ErrInvalidPacket"
             /\ cres.val = U64(0)
             /\ cres.n = 0
        ELSE /\ cres.err = "nil"
             /\ cres.n = FormWidth(carg[1])
             /\ carg[1] < 251 => cres.val = <<carg[1]>> \o Zeros(7)
             /\ carg[1] > 251 =>
                    cres.val = SubSeq(carg, 2, cres.n) \o Zeros(9 - cres.n)

\* the value 1 written in the 9-byte form was decoded as 1
W14_NonMinimalFormDecoded ==
    /\ cfn = "Decode"
    /\ carg = <<254, 1, 0, 0, 0, 0, 0, 0, 0>>
    /\ cres = [val |-> U64(1), n |-> 9, err |-> "nil"]


\* bytes of the shortest length-encoded form of a uint64
MinimalWidth(v) ==
    IF U64Lt(v, 251) THEN 1
    ELSE IF U64Lt(v, 65536) THEN 3
    ELSE IF U64Lt(v, 16777216) THEN 4
    ELSE 9

\* C15: NewOKPacket returns 0x00, the minimal length-encoded affectedRows,
\* the minimal length-encoded lastInsertID, status as 2 little-endian bytes
\* and 0x00 0x00; the result has at least 7 bytes and the 2 bytes before
\* the last 2 decode to status.
C15_OKPacketLayout ==
    cfn = "OK" =>
        LET p == cres.bytes
            ar == ReadLengthEncodedInt(SliceFrom(p, 1))
            li == ReadLengthEncodedInt(SliceFrom(p, 1 + ar.n))
            n == Len(p) IN
        /\ n >= 7
        /\ p[1] = 0
        /\ ar.err = "nil" /\ ar.val = carg.affectedRows
        /\ ar.n = MinimalWidth(carg.affectedRows)
        /\ li.err = "nil" /\ li.val = carg.lastInsertID
        /\ li.n = MinimalWidth(carg.lastInsertID)
        /\ n = 1 + ar.n + li.n + 4
        /\ p[n - 3] + (256 * p[n - 2]) = carg.status
        /\ p[n - 1] = 0 /\ p[n] = 0

\* the packet of the unit test, NewOKPacket(1, 2, 0x0002), came out as the
\* 7 bytes 00 01 02 02 00 00 00
W15_TestOKPacket ==
    /\ cfn = "OK"
    /\ carg = [affectedRows |-> U64(1), lastInsertID |-> U64(2), status |-> 2]
    /\ cres.bytes = <<0, 1, 2, 2, 0, 0, 0>>


\* C16: NewErrPacket returns 0xFF, code as 2 little-endian bytes, '#', the
\* sqlState bytes verbatim and the message bytes with no length prefix and
\* no terminator; its length is 4 + len(sqlState) + len(message).
C16_ErrPacketLayout ==
    cfn = "Err" =>
        LET p == cres.bytes
            ns == Len(carg.sqlState) IN
        /\ Len(p) = 4 + ns + Len(carg.message)
        /\ p[1] = 255
        /\ p[2] + (256 * p[3]) = carg.code
        /\ p[4] = 35
        /\ SubSeq(p, 5, 4 + ns) = carg.sqlState
        /\ SubSeq(p, 5 + ns, Len(p)) = carg.message

\* the packet of the unit test, NewErrPacket(1045, "28000", "Access denied"),
\* came out with code bytes 0x15 0x04 and 22 bytes in all
W16_TestErrPacket ==
    /\ cfn = "Err"
    /\ carg = [code |-> ErrAccessDenied, sqlState |-> Str28000, message |-> StrDenied]
    /\ Len(cres.bytes) = 22
    /\ SubSeq(cres.bytes, 1, 4) = <<255, 21, 4, 35>>


\* C19: when two packets are written back to back on one stream, the first
\* ReadPacket returns the first packet's sequence and payload, consumes
\* exactly 4 + length bytes and leaves the second frame untouched; the
\* second ReadPacket returns the second packet and leaves nothing.
C19_FramesReadInOrder ==
    cfn = "Stream" =>
        /\ cres.w1.err = "nil" /\ cres.w2.err = "nil"
        /\ cres.r1.err = "nil"
        /\ cres.r1.pkt.Sequence = carg.seq1
        /\ cres.r1.pkt.Payload = carg.p1
        /\ cres.r1.pkt.Length = Len(carg.p1)
        /\ Len(cres.w1.bytes) = 4 + Len(carg.p1)
        /\ cres.r1.rest = cres.w2.bytes
        /\ cres.r2.err = "nil"
        /\ cres.r2.pkt.Sequence = carg.seq2
        /\ cres.r2.pkt.Payload = carg.p2
        /\ cres.r2.rest = <<>>

\* a 2-byte packet whose payload looks like the start of a header was
\* followed by an empty packet, and both came back
W19_TwoFramesRead ==
    /\ cfn = "Stream"
    /\ carg = [seq1 |-> 255, p1 |-> <<0, 0>>, seq2 |-> 0, p2 |-> <<>>]
    /\ cres.r1.pkt = [Length |-> 2, Sequence |-> 255, Payload |-> <<0, 0>>]
    /\ cres.r1.rest = <<0, 0, 0, 0>>
    /\ cres.r2.pkt = [Length |-> 0, Sequence |-> 0, Payload |-> <<>>]
    /\ cres.r2.err = "nil"


\* a step of the session loop that reads one packet off the connection
LoopReadsPacket ==
    LET r == ReadPacket(inbuf, inEOF) IN
    /\ pc = "loop"
    /\ r.err = "nil"
    /\ inbuf' = r.rest
    /\ sent' = sent
    /\ inEOF' = inEOF

\* C18: in the session loop a response carries sequence (inbound sequence
\* + 1) mod 256, an inbound packet produces at most one outbound packet, and
\* that packet is written in the loop iteration that read the inbound one,
\* which reads no other packet: the loop writes nothing at any other time.
C18_ResponseSequence ==
    [][/\ LoopReadsPacket =>
            LET r == ReadPacket(inbuf, inEOF) IN
            /\ Len(inbuf) - Len(inbuf') = 4 + r.pkt.Length
            /\ Len(out') \in {Len(out), Len(out) + 1}
            /\ SubSeq(out', 1, Len(out)) = out
            /\ Len(out') = Len(out) + 1 =>
                   FrameSeq(out'[Len(out')]) = (r.pkt.Sequence + 1) % 256
       /\ (pc = "loop" /\ out' /= out) => LoopReadsPacket]_vars

\* a command packet with sequence 255 was answered with sequence 0
W18_SequenceWraps ==
    /\ last.kind = "cmd"
    /\ last.seq = 255
    /\ last.wrote /= <<>>
    /\ out[Len(out)] = last.wrote
    /\ FrameSeq(last.wrote) = 0


\* a step of the session loop that reads a packet of declared length 0
LoopReadsEmpty ==
    /\ LoopReadsPacket
    /\ ReadPacket(inbuf, inEOF).pkt.Length = 0

\* C20: after authentication a packet of declared length 0 is not taken for
\* the end of the stream: the loop writes no response for it, does not call
\* handleCommand, which is so never called with an empty payload, and goes
\* on to the next read.
C20_EmptyPacketSkipped ==
    [][/\ LoopReadsEmpty =>
            /\ pc' = "loop"
            /\ out' = out
            /\ ncmd' = ncmd
            /\ last'.kind = "empty"
            /\ inbuf' = SliceFrom(inbuf, 4)
       /\ (ncmd' /= ncmd) => (last'.kind = "cmd" /\ Len(last'.payload) > 0)]_vars

\* an empty packet was skipped with the next packet already waiting, and the
\* worker is still in its loop
W20_EmptyThenNext ==
    /\ pc = "loop"
    /\ last.kind = "empty"
    /\ Len(inbuf) >= 4
    /\ Len(out) = 2


\* C17: on each connection the scramble exists from the moment the greeting
\* (sequence 0) is sent and is given to the verifier at most once; the 20
\* bytes the verifier gets are scramble part 1 (8 bytes) and part 2 (12
\* bytes) of the greeting of that same connection, so that with connections
\* interleaved a token is accepted exactly when it was computed from the
\* connection's own greeting.
C17_ScramblePerConnection ==
    \A c \in Conns :
        LET k == conns[c] IN
        /\ (k.scramble /= <<>>) <=> (Len(k.out) >= 1)
        /\ Len(k.out) >= 1 =>
               /\ FrameSeq(k.out[1]) = 0
               /\ k.scramble = GreetingScramble(k.out[1])
        /\ k.nverify <= 1
        /\ k.nverify = 1 =>
               /\ Len(k.vscr) = 20
               /\ k.vscr = GreetingScramble(k.out[1])
               /\ k.verified <=>
                      (k.token = ClientResponse(StrPassword, GreetingScramble(k.out[1])))

\* two connections were greeted with different scrambles; the token made
\* from the greeting of connection 1 was accepted on connection 1 and
\* refused on connection 2, and connection 2 then got a handshake response
\* once more without verifying again
W17_ReplayAcrossConnections ==
    /\ conns[1].scramble /= conns[2].scramble
    /\ conns[1].nverify = 1 /\ conns[1].verified
    /\ conns[2].nverify = 1 /\ ~conns[2].verified
    /\ conns[2].token = conns[1].token /\ conns[2].token /= <<>>
    /\ conns[2].sent = 2 /\ conns[2].inbuf = <<>> /\ Len(conns[2].out) = 3

=============================================================================
